---- MODULE Spec2Model ----
(***************************************************************************)
(* USB/IP server: the per-connection handler loop of UsbIpServer::handler  *)
(* and the pause/barrier protocol of add_device / remove_device            *)
(* (src/src/lib.rs).                                                       *)
(*                                                                         *)
(* Connections are tasks spawned by server(); the mutator is the single    *)
(* caller holding the server mutably.  Every statement that touches shared *)
(* state (the pause signal, the barrier, the device list) is its own step, *)
(* so the tasks interleave as on a multi-threaded runtime.                 *)
(***************************************************************************)
EXTENDS Integers, Sequences, FiniteSets, TLC

(***************************************************************************)
(* Bounds of the model.                                                    *)
(***************************************************************************)
NumConns == 2        \* connection tasks
MaxDevices == 2      \* longest device list
MaxSkipped == 1      \* host devices that fail to open at construction
MaxSeq == 2          \* sequence numbers 1..MaxSeq

Conns == 1 .. NumConns

(***************************************************************************)
(* Wire constants.                                                         *)
(***************************************************************************)
BusIdLen == 32
PathLen == 256
UnlinkPadLen == 24
SubmitPadLen == 8
CommandLen == 4
EP_IN == 128         \* 0x80, the direction bit
U8 == 256

OP_REQ_DEVLIST == <<1, 17, 128, 5>>
OP_REQ_IMPORT == <<1, 17, 128, 3>>
CMD_SUBMIT == <<0, 0, 0, 1>>
CMD_UNLINK == <<0, 0, 0, 2>>
OP_REP_DEVLIST == 17891333      \* 0x01110005
OP_REP_IMPORT == 17891331       \* 0x01110003
RET_SUBMIT == 3
RET_UNLINK == 4

(***************************************************************************)
(* Byte encoding: write_u32 / write_u16 are big-endian.                    *)
(***************************************************************************)
U32BE(x) ==
  << (x \div 16777216) % 256, (x \div 65536) % 256, (x \div 256) % 256, x % 256 >>

U16BE(x) == << (x \div 256) % 256, x % 256 >>

ReadU32(bytes, at) ==
  bytes[at] * 16777216 + bytes[at + 1] * 65536 + bytes[at + 2] * 256 + bytes[at + 3]

Zeros(n) == [i \in 1 .. n |-> 0]

\* Vec::resize(n, 0): truncate to n bytes or pad with zeros on the right.
Resize(s, n) == [i \in 1 .. n |-> IF i <= Len(s) THEN s[i] ELSE 0]

Repeat(b, n) == [i \in 1 .. n |-> b]

RECURSIVE Flatten(_)
Flatten(ss) == IF ss = <<>> THEN <<>> ELSE Head(ss) \o Flatten(Tail(ss))

(***************************************************************************)
(* Device model.                                                           *)
(***************************************************************************)
Interface(cls, sub, proto, eps) ==
  [interface_class |-> cls, interface_subclass |-> sub,
   interface_protocol |-> proto, endpoints |-> eps]

UsbDevice(path, busid, intfs) ==
  [path |-> path, bus_id |-> busid, bus_num |-> 0, dev_num |-> 0, speed |-> 2,
   vendor_id |-> 0, product_id |-> 0, device_bcd |-> 0,
   device_class |-> 0, device_subclass |-> 0, device_protocol |-> 0,
   configuration_value |-> 0, num_configurations |-> 1,
   interfaces |-> intfs]

\* CDC ACM interface: interrupt IN 0x81, bulk IN 0x82, bulk OUT 0x02.
CdcIntf == Interface(2, 2, 0, <<129, 130, 2>>)
HidIntf == Interface(3, 0, 0, <<129>>)

DevA == UsbDevice(<<47, 48>>, <<48>>, <<CdcIntf>>)                 \* bus_id "0"
DevB == UsbDevice(<<47, 49>>, <<49>>, <<HidIntf, CdcIntf>>)        \* bus_id "1"
\* Two bus_ids longer than the wire field that agree on their first 32 bytes.
DevL1 == UsbDevice(<<47, 50>>, Repeat(97, BusIdLen) \o <<98>>, <<>>)
DevL2 == UsbDevice(<<47, 51>>, Repeat(97, BusIdLen) \o <<99>>, <<HidIntf>>)

Catalog == {DevA, DevB, DevL1, DevL2}
MutCatalog == {DevA, DevB}

RECURSIVE SeqsUpTo(_, _)
SeqsUpTo(S, n) ==
  IF n = 0 THEN {<<>>}
  ELSE LET shorter == SeqsUpTo(S, n - 1)
       IN shorter \cup {Append(s, x) : s \in {t \in shorter : Len(t) = n - 1}, x \in S}

\* UsbDevice::write_dev: the 312-byte device summary.
WriteDev(d) ==
  Resize(d.path, PathLen) \o Resize(d.bus_id, BusIdLen)
    \o U32BE(d.bus_num) \o U32BE(d.dev_num) \o U32BE(d.speed)
    \o U16BE(d.vendor_id) \o U16BE(d.product_id) \o U16BE(d.device_bcd)
    \o << d.device_class % U8, d.device_subclass % U8, d.device_protocol % U8,
          d.configuration_value % U8, d.num_configurations % U8,
          Len(d.interfaces) % U8 >>

\* UsbDevice::write_dev_with_interfaces: summary plus 4 bytes per interface.
WriteDevWithInterfaces(d) ==
  WriteDev(d) \o
    Flatten([i \in 1 .. Len(d.interfaces) |->
               << d.interfaces[i].interface_class, d.interfaces[i].interface_subclass,
                  d.interfaces[i].interface_protocol, 0 >>])

\* UsbDevice::find_ep: endpoint 0 (either direction) has no interface; any
\* other address resolves to the first interface listing it; else None.
NoEp == [found |-> FALSE, address |-> 0, intf |-> 0]

FindEp(d, addr) ==
  IF addr = EP_IN \/ addr = 0
    THEN [found |-> TRUE, address |-> addr, intf |-> 0]
    ELSE LET owners == {i \in 1 .. Len(d.interfaces) :
                          \E j \in 1 .. Len(d.interfaces[i].endpoints) :
                            d.interfaces[i].endpoints[j] = addr}
         IN IF owners = {} THEN NoEp
            ELSE [found |-> TRUE, address |-> addr,
                  intf |-> CHOOSE i \in owners : \A k \in owners : i <= k]

\* UsbDevice::handle_urb: the handler's answer is its own business; it either
\* fails or returns some bytes.
HandlerData == {<<>>, <<18, 1>>}
HandleUrb(d, ep) ==
  {[ok |-> FALSE, data |-> <<>>]} \cup {[ok |-> TRUE, data |-> r] : r \in HandlerData}

(***************************************************************************)
(* RET_SUBMIT / RET_UNLINK / OP_REP_* as the handler writes them.          *)
(***************************************************************************)
\* ep | 0x80
OrDirIn(ep) == IF (ep \div EP_IN) % 2 = 1 THEN ep ELSE ep + EP_IN

\* A RET_SUBMIT that appends the handler's data whatever the direction.
RetSubmitBytesPayloadAlways(seq, out, tbl, resp) ==
  U32BE(RET_SUBMIT) \o U32BE(seq) \o U32BE(0) \o U32BE(0) \o U32BE(0)
    \o U32BE(0)
    \o U32BE(IF out THEN tbl ELSE Len(resp))
    \o U32BE(0) \o U32BE(0) \o U32BE(0)
    \o Zeros(SubmitPadLen)
    \o resp

RetSubmitBytes(seq, out, tbl, resp) ==
  U32BE(RET_SUBMIT) \o U32BE(seq) \o U32BE(0) \o U32BE(0) \o U32BE(0)
    \o U32BE(0)                                          \* status
    \o U32BE(IF out THEN tbl ELSE Len(resp))             \* actual_length
    \o U32BE(0) \o U32BE(0) \o U32BE(0)
    \o Zeros(SubmitPadLen)
    \o (IF out THEN <<>> ELSE resp)

RetUnlinkBytes(seq, padding) ==
  U32BE(RET_UNLINK) \o U32BE(seq) \o U32BE(0) \o U32BE(0) \o U32BE(0)
    \o U32BE(0)                                          \* status
    \o padding

\* A reply that sends only the device summaries, without interface records.
RepDevlistBytesSummaryOnly(devs) ==
  U32BE(OP_REP_DEVLIST) \o U32BE(0) \o U32BE(Len(devs))
    \o Flatten([i \in 1 .. Len(devs) |-> WriteDev(devs[i])])

RepDevlistBytes(devs) ==
  U32BE(OP_REP_DEVLIST) \o U32BE(0) \o U32BE(Len(devs))
    \o Flatten([i \in 1 .. Len(devs) |-> WriteDevWithInterfaces(devs[i])])

\* A lookup without the break: the last match wins.
ImportLookupLast(devs, field) ==
  LET hits == {i \in 1 .. Len(devs) : Resize(devs[i].bus_id, BusIdLen) = field}
  IN IF hits = {} THEN 0 ELSE CHOOSE i \in hits : \A k \in hits : i >= k

\* The import lookup: the first device, in list order, whose bus_id resized
\* to 32 bytes equals the request field; 0 when there is none.
ImportLookup(devs, field) ==
  LET hits == {i \in 1 .. Len(devs) : Resize(devs[i].bus_id, BusIdLen) = field}
  IN IF hits = {} THEN 0 ELSE CHOOSE i \in hits : \A k \in hits : i <= k

NoDevice == [some |-> FALSE, idx |-> 0, dev |-> DevA]
SomeDevice(devs, i) == [some |-> TRUE, idx |-> i, dev |-> devs[i]]

\* An OP_REP_IMPORT whose status is 0 on a miss too.
RepImportBytesStatusZero(cur) ==
  U32BE(OP_REP_IMPORT) \o U32BE(0) \o (IF cur.some THEN WriteDev(cur.dev) ELSE <<>>)

RepImportBytes(cur) ==
  U32BE(OP_REP_IMPORT)
    \o (IF cur.some THEN U32BE(0) \o WriteDev(cur.dev) ELSE U32BE(1))

(***************************************************************************)
(* Inputs a client can put on the stream.                                  *)
(***************************************************************************)
UnknownCommand == <<0, 0, 0, 3>>
Prefixes == {OP_REQ_DEVLIST, OP_REQ_IMPORT, CMD_SUBMIT, CMD_UNLINK, UnknownCommand}
KnownCommands == {OP_REQ_DEVLIST, OP_REQ_IMPORT, CMD_SUBMIT, CMD_UNLINK}

ImportFields ==
  {Resize(<<48>>, BusIdLen), Resize(<<49>>, BusIdLen), Repeat(97, BusIdLen),
   Resize(<<57>>, BusIdLen), [Resize(<<48>>, BusIdLen) EXCEPT ![BusIdLen] = 1]}

SeqNums == 1 .. MaxSeq
Directions == {0, 1}
Endpoints == {0, 1, 2, 256}
BufferLengths == {0, 2}
UnlinkPaddings == {Zeros(UnlinkPadLen), [Zeros(UnlinkPadLen) EXCEPT ![1] = 7]}

\* How many bytes of the prefix the stream delivers before a failed read.
PartialPrefixes == 0 .. (CommandLen - 1)

NoReq ==
  [kind |-> "none", seq |-> 0, dir |-> 0, ep |-> 0, tbl |-> 0,
   handler |-> "none", resp |-> <<>>, field |-> <<>>, pad |-> <<>>, got |-> 0,
   had |-> FALSE]

(***************************************************************************)
(* State.                                                                  *)
(***************************************************************************)
VARIABLES
  devices,     \* UsbIpServer.devices
  barrier,     \* UsbIpServer.control_barrier: [n, waiting]
  paused,      \* UsbIpServer.control_channel: the value of the watch channel
  mpc,         \* where the caller of add_device / remove_device stands
  marg,        \* its operation and device
  cpc,         \* where each handler task stands
  command,     \* the 4-byte prefix a handler has read
  imp,         \* current_import_device of each handler
  out,         \* bytes a handler wrote in the current loop iteration
  last,        \* the request parsed in the current loop iteration
  owed         \* CMD_SUBMIT/CMD_UNLINK read minus RET_SUBMIT/RET_UNLINK written

vars == <<devices, barrier, paused, mpc, marg, cpc, command, imp, out, last, owed>>
server == <<devices, barrier, paused, mpc, marg>>

Mutator == 0
NoArg == [op |-> "none", dev |-> DevA]
EndPcs == {"ok", "err", "panic"}

NewBarrier(n) == [n |-> n, waiting |-> {}]

ConnInit ==
  /\ cpc = [c \in Conns |-> "new"]
  /\ command = [c \in Conns |-> <<>>]
  /\ imp = [c \in Conns |-> NoDevice]
  /\ out = [c \in Conns |-> <<>>]
  /\ last = [c \in Conns |-> NoReq]
  /\ owed = [c \in Conns |-> 0]

\* Default::default / new_simulated leave the barrier at one party;
\* new_from_host(_with_filter) size it by the devices enumerated, of which
\* with_devices skips those that cannot be opened.
Init ==
  /\ devices \in SeqsUpTo(MutCatalog, MaxDevices)
  /\ \/ barrier = NewBarrier(1)
     \/ \E skipped \in 0 .. MaxSkipped : barrier = NewBarrier(Len(devices) + skipped + 1)
  /\ paused = FALSE
  /\ mpc = "idle"
  /\ marg = NoArg
  /\ ConnInit

\* A server built by new_simulated and never mutated, one client.
InitConn ==
  /\ devices \in SeqsUpTo(Catalog, MaxDevices)
  /\ barrier = NewBarrier(1)
  /\ paused = FALSE
  /\ mpc = "idle"
  /\ marg = NoArg
  /\ ConnInit

(***************************************************************************)
(* tokio::sync::Barrier::wait: the n-th arrival releases every waiter and  *)
(* itself and the barrier starts over; any earlier arrival blocks.         *)
(***************************************************************************)
Arrive(p) ==
  IF Cardinality(barrier.waiting) + 1 >= barrier.n
    THEN LET released == barrier.waiting \cup {p}
         IN /\ barrier' = [barrier EXCEPT !.waiting = {}]
            /\ cpc' = [c \in Conns |-> IF c \in released THEN "waitclear" ELSE cpc[c]]
            /\ mpc' = IF Mutator \in released THEN "apply" ELSE mpc
    ELSE /\ barrier' = [barrier EXCEPT !.waiting = @ \cup {p}]
         /\ cpc' = [c \in Conns |-> IF c = p THEN "barrier" ELSE cpc[c]]
         /\ mpc' = IF p = Mutator THEN "barrier" ELSE mpc

(***************************************************************************)
(* UsbIpServer::handler, one task per connection.                          *)
(***************************************************************************)
conn == <<command, imp, out, last, owed>>

\* server(): tokio::spawn of handler; current_import_device starts as None.
Spawn(c) ==
  /\ cpc[c] = "new"
  /\ cpc' = [cpc EXCEPT ![c] = "top"]
  /\ imp' = [imp EXCEPT ![c] = NoDevice]
  /\ UNCHANGED <<server, command, out, last, owed>>

\* Loop head: a new iteration starts by borrowing the pause signal.
CheckPause(c) ==
  /\ cpc[c] = "top"
  /\ cpc' = [cpc EXCEPT ![c] = IF paused THEN "arrive" ELSE "read"]
  /\ out' = [out EXCEPT ![c] = <<>>]
  /\ last' = [last EXCEPT ![c] = NoReq]
  /\ UNCHANGED <<server, command, imp, owed>>

\* self.control_barrier.wait().await
BarrierWait(c) ==
  /\ cpc[c] = "arrive"
  /\ Arrive(c)
  /\ UNCHANGED <<devices, paused, marg, conn>>

\* A handler blocked on a barrier that add_device / remove_device replaced
\* under it waits on a dropped object: it may come back or stay blocked.
OrphanWake(c) ==
  /\ cpc[c] = "barrier"
  /\ c \notin barrier.waiting
  /\ cpc' = [cpc EXCEPT ![c] = "waitclear"]
  /\ UNCHANGED <<server, conn>>

\* A handler that leaves the barrier and reads on without waiting for the
\* signal to clear.
WaitClearNoWait(c) ==
  /\ cpc[c] = "waitclear"
  /\ cpc' = [cpc EXCEPT ![c] = "read"]
  /\ UNCHANGED <<server, conn>>

\* wait_for(|&b| !b)
WaitClear(c) ==
  /\ cpc[c] = "waitclear"
  /\ ~paused
  /\ cpc' = [cpc EXCEPT ![c] = "read"]
  /\ UNCHANGED <<server, conn>>

IsUrbCommand(p) == p = CMD_SUBMIT \/ p = CMD_UNLINK

\* read_exact(&mut command) delivers the next four bytes of the stream.
ReadCommand(c, p) ==
  /\ cpc[c] = "read"
  /\ cpc' = [cpc EXCEPT ![c] = "body"]
  /\ command' = [command EXCEPT ![c] = p]
  /\ owed' = [owed EXCEPT ![c] = IF IsUrbCommand(p) THEN @ + 1 ELSE @]
  /\ UNCHANGED <<server, imp, out, last>>

\* read_exact(&mut command) fails after `got` bytes of the prefix.  The
\* stream ending before the buffer is full is reported as UnexpectedEof,
\* whether 0 or 1 to 3 bytes came first, and returns Ok(()); an error of
\* any other kind is returned.
ReadCommandFails(c, eof, got) ==
  /\ cpc[c] = "read"
  /\ cpc' = [cpc EXCEPT ![c] = IF eof THEN "ok" ELSE "err"]
  /\ last' = [last EXCEPT ![c] =
                [NoReq EXCEPT !.kind = IF eof THEN "eof" ELSE "ioerr", !.got = got]]
  /\ UNCHANGED <<server, command, imp, out, owed>>

\* A read or write inside an arm fails, the stream ending in the middle of
\* the packet included: `?` returns the error.
TransportError(c) ==
  /\ cpc[c] = "body"
  /\ command[c] \in KnownCommands
  /\ cpc' = [cpc EXCEPT ![c] = "err"]
  /\ last' = [last EXCEPT ![c] = [NoReq EXCEPT !.kind = "midpacket"]]
  /\ UNCHANGED <<server, command, imp, out, owed>>

\* [0x01, 0x11, 0x80, 0x05]
Devlist(c) ==
  /\ cpc[c] = "body"
  /\ command[c] = OP_REQ_DEVLIST
  /\ out' = [out EXCEPT ![c] = RepDevlistBytes(devices)]
  /\ last' = [last EXCEPT ![c] = [NoReq EXCEPT !.kind = "devlist"]]
  /\ cpc' = [cpc EXCEPT ![c] = "top"]
  /\ UNCHANGED <<server, command, imp, owed>>

ImportResult(devs, field) ==
  LET i == ImportLookup(devs, field)
  IN IF i = 0 THEN NoDevice ELSE SomeDevice(devs, i)

\* An import whose result lands in a variable all handlers share.
ImportShared(c, field) ==
  /\ cpc[c] = "body"
  /\ command[c] = OP_REQ_IMPORT
  /\ LET cur == ImportResult(devices, field)
     IN /\ imp' = [d \in Conns |-> cur]
        /\ out' = [out EXCEPT ![c] = RepImportBytes(cur)]
  /\ last' = [last EXCEPT ![c] = [NoReq EXCEPT !.kind = "import", !.field = field,
                             !.had = imp[c].some]]
  /\ cpc' = [cpc EXCEPT ![c] = "top"]
  /\ UNCHANGED <<server, command, owed>>

\* An import without `current_import_device = None`: a miss keeps the
\* device of an earlier import.
ImportKeepOnMiss(c, field) ==
  /\ cpc[c] = "body"
  /\ command[c] = OP_REQ_IMPORT
  /\ LET found == ImportResult(devices, field)
         cur == IF found.some THEN found ELSE imp[c]
     IN /\ imp' = [imp EXCEPT ![c] = cur]
        /\ out' = [out EXCEPT ![c] = RepImportBytes(cur)]
  /\ last' = [last EXCEPT ![c] =
                [NoReq EXCEPT !.kind = "import", !.field = field,
                             !.had = imp[c].some]]
  /\ cpc' = [cpc EXCEPT ![c] = "top"]
  /\ UNCHANGED <<server, command, owed>>

\* [0x01, 0x11, 0x80, 0x03]
Import(c, field) ==
  /\ cpc[c] = "body"
  /\ command[c] = OP_REQ_IMPORT
  /\ LET cur == ImportResult(devices, field)
     IN /\ imp' = [imp EXCEPT ![c] = cur]
        /\ out' = [out EXCEPT ![c] = RepImportBytes(cur)]
  /\ last' = [last EXCEPT ![c] = [NoReq EXCEPT !.kind = "import", !.field = field,
                             !.had = imp[c].some]]
  /\ cpc' = [cpc EXCEPT ![c] = "top"]
  /\ UNCHANGED <<server, command, owed>>

\* What current_import_device refers to: the device as it was imported, or,
\* once the list changed under the reference, whatever sits in its slot.
Referents(c) ==
  {imp[c].dev} \cup (IF imp[c].idx <= Len(devices) THEN {devices[imp[c].idx]} ELSE {})

SubmitOutcome(device, seq, dir, ep, tbl, h) ==
  LET isOut == dir = 0
      real_ep == IF isOut THEN ep ELSE OrDirIn(ep)
      found == FindEp(device, real_ep % U8)
  IN IF ~found.found
       THEN \* device.find_ep(real_ep as u8).unwrap()
            [pc |-> "panic", bytes |-> <<>>, handler |-> "none", resp |-> <<>>]
     ELSE IF ~h.ok
       THEN \* device.handle_urb(...).await?
            [pc |-> "err", bytes |-> <<>>, handler |-> "err", resp |-> <<>>]
     ELSE [pc |-> "top", bytes |-> RetSubmitBytes(seq, isOut, tbl, h.data),
           handler |-> "ok", resp |-> h.data]

\* [0x00, 0x00, 0x00, 0x01]
Submit(c, seq, dir, ep, tbl) ==
  LET req == [NoReq EXCEPT !.kind = "submit", !.seq = seq, !.dir = dir,
                           !.ep = ep, !.tbl = tbl]
  IN /\ cpc[c] = "body"
     /\ command[c] = CMD_SUBMIT
     /\ IF ~imp[c].some
          THEN \* current_import_device.unwrap()
               /\ cpc' = [cpc EXCEPT ![c] = "panic"]
               /\ last' = [last EXCEPT ![c] = req]
               /\ UNCHANGED <<out, owed>>
          ELSE \E device \in Referents(c) :
                 \E h \in HandleUrb(device, ep) :
                   LET r == SubmitOutcome(device, seq, dir, ep, tbl, h)
                   IN /\ cpc' = [cpc EXCEPT ![c] = r.pc]
                      /\ out' = [out EXCEPT ![c] = r.bytes]
                      /\ last' = [last EXCEPT ![c] =
                                    [req EXCEPT !.handler = r.handler, !.resp = r.resp]]
                      /\ owed' = [owed EXCEPT ![c] = IF r.pc = "top" THEN @ - 1 ELSE @]
     /\ UNCHANGED <<server, command, imp>>

\* A CMD_UNLINK arm that reads the request and writes nothing.
UnlinkNoReply(c, seq, padding) ==
  /\ cpc[c] = "body"
  /\ command[c] = CMD_UNLINK
  /\ last' = [last EXCEPT ![c] =
                [NoReq EXCEPT !.kind = "unlink", !.seq = seq, !.pad = padding]]
  /\ cpc' = [cpc EXCEPT ![c] = "top"]
  /\ UNCHANGED <<server, command, imp, out, owed>>

\* [0x00, 0x00, 0x00, 0x02]
Unlink(c, seq, padding) ==
  /\ cpc[c] = "body"
  /\ command[c] = CMD_UNLINK
  /\ out' = [out EXCEPT ![c] = RetUnlinkBytes(seq, padding)]
  /\ last' = [last EXCEPT ![c] =
                [NoReq EXCEPT !.kind = "unlink", !.seq = seq, !.pad = padding]]
  /\ owed' = [owed EXCEPT ![c] = @ - 1]
  /\ cpc' = [cpc EXCEPT ![c] = "top"]
  /\ UNCHANGED <<server, command, imp>>

\* _ => warn!(...): the match falls through to the next iteration.
Unknown(c) ==
  /\ cpc[c] = "body"
  /\ command[c] \notin KnownCommands
  /\ last' = [last EXCEPT ![c] = [NoReq EXCEPT !.kind = "unknown"]]
  /\ cpc' = [cpc EXCEPT ![c] = "top"]
  /\ UNCHANGED <<server, command, imp, out, owed>>

(***************************************************************************)
(* add_device / remove_device.                                             *)
(***************************************************************************)
\* pause_sockets: control_channel.0.send(true)
Pause(op, d) ==
  /\ mpc = "idle"
  /\ op = "add" => Len(devices) < MaxDevices
  /\ paused' = TRUE
  /\ marg' = [op |-> op, dev |-> d]
  /\ mpc' = "arrive"
  /\ UNCHANGED <<devices, barrier, cpc, conn>>

\* pause_sockets: control_barrier.wait().await
MutatorWait ==
  /\ mpc = "arrive"
  /\ Arrive(Mutator)
  /\ UNCHANGED <<devices, paused, marg, conn>>

\* A removal that drops only the first device of the bus_id.
RetainFirst(devs, busid) ==
  LET hits == {i \in 1 .. Len(devs) : devs[i].bus_id = busid}
  IN IF hits = {} THEN devs
     ELSE LET f == CHOOSE i \in hits : \A k \in hits : i <= k
          IN SubSeq(devs, 1, f - 1) \o SubSeq(devs, f + 1, Len(devs))

\* Vec::retain(|d| d.bus_id != device.bus_id)
Retain(devs, busid) == SelectSeq(devs, LAMBDA d : d.bus_id # busid)

\* devices.push(device.clone()) / devices.retain(...)
Apply ==
  /\ mpc = "apply"
  /\ devices' = IF marg.op = "add" THEN Append(devices, marg.dev)
                ELSE Retain(devices, marg.dev.bus_id)
  /\ mpc' = "rebarrier"
  /\ UNCHANGED <<barrier, paused, marg, cpc, conn>>

\* control_barrier = Barrier::new(devices.len() + 1)
Rebarrier ==
  /\ mpc = "rebarrier"
  /\ barrier' = NewBarrier(Len(devices) + 1)
  /\ mpc' = "resume"
  /\ UNCHANGED <<devices, paused, marg, cpc, conn>>

\* resume_sockets: control_channel.0.send(false)
Resume ==
  /\ mpc = "resume"
  /\ paused' = FALSE
  /\ mpc' = "idle"
  /\ marg' = NoArg
  /\ UNCHANGED <<devices, barrier, cpc, conn>>

(***************************************************************************)
(* Specifications.                                                         *)
(***************************************************************************)
HandlerStep(c) ==
  \/ Spawn(c)
  \/ CheckPause(c)
  \/ \E p \in Prefixes : ReadCommand(c, p)
  \/ \E eof \in BOOLEAN, got \in PartialPrefixes : ReadCommandFails(c, eof, got)
  \/ TransportError(c)
  \/ Devlist(c)
  \/ \E field \in ImportFields : Import(c, field)
  \/ \E seq \in SeqNums, dir \in Directions, ep \in Endpoints, tbl \in BufferLengths :
       Submit(c, seq, dir, ep, tbl)
  \/ \E seq \in SeqNums, padding \in UnlinkPaddings : Unlink(c, seq, padding)
  \/ Unknown(c)

\* One client of a server nobody mutates.
NextConn == HandlerStep(1)

SpecConn == InitConn /\ [][NextConn]_vars

\* The same handler fed the few requests that touch the shared device list:
\* a DEVLIST, an IMPORT of bus_id "0" and a GetDescriptor-style IN URB on ep 0.
SharedStep(c) ==
  \/ Spawn(c)
  \/ CheckPause(c)
  \/ BarrierWait(c)
  \/ WaitClear(c)
  \/ OrphanWake(c)
  \/ \E p \in {OP_REQ_DEVLIST, OP_REQ_IMPORT, CMD_SUBMIT} : ReadCommand(c, p)
  \/ ReadCommandFails(c, TRUE, 0)
  \/ Devlist(c)
  \/ Import(c, Resize(<<48>>, BusIdLen))
  \/ Submit(c, 1, 1, 0, 0)

MutatorStep ==
  \/ \E op \in {"add", "remove"}, d \in MutCatalog : Pause(op, d)
  \/ MutatorWait
  \/ Apply
  \/ Rebarrier
  \/ Resume

\* Connections of a server that a caller mutates while they run.
Next ==
  \/ MutatorStep
  \/ \E c \in Conns : SharedStep(c)

Spec == Init /\ [][Next]_vars

\* The scheduler runs every task that can run, the mutator's caller goes on
\* once released, and clients of live connections keep sending requests.
\* Nothing obliges a client to connect.
FairSpec ==
  /\ Spec
  /\ WF_vars(MutatorWait) /\ WF_vars(Apply) /\ WF_vars(Rebarrier) /\ WF_vars(Resume)
  /\ \A c \in Conns :
       /\ WF_vars(CheckPause(c)) /\ WF_vars(BarrierWait(c)) /\ WF_vars(WaitClear(c))
       /\ WF_vars(\E p \in {OP_REQ_DEVLIST, OP_REQ_IMPORT, CMD_SUBMIT} : ReadCommand(c, p))
       /\ WF_vars(Devlist(c) \/ Import(c, Resize(<<48>>, BusIdLen)) \/ Submit(c, 1, 1, 0, 0))

(***************************************************************************)
(* Properties.                                                             *)
(***************************************************************************)
MutationInProgress == mpc \in {"apply", "rebarrier", "resume"}
Distinct(devs) ==
  \A i, j \in 1 .. Len(devs) : i # j => devs[i].bus_id # devs[j].bus_id
FieldMatches(devs, field) ==
  {i \in 1 .. Len(devs) : Resize(devs[i].bus_id, BusIdLen) = field}
CanonicalEp(dir, ep) == IF dir = 0 THEN ep ELSE OrDirIn(ep)

\* C1 (as claimed): while the mutator is between its barrier wait and the
\* clearing of the pause signal, no connection reads a command prefix, and
\* none runs an arm that reads the device list or dispatches a URB.
C1_Quiescence ==
  [][MutationInProgress =>
       \A c \in Conns : /\ cpc[c] = "read" => cpc'[c] = "read"
                        /\ cpc[c] = "body" => cpc'[c] = "body"]_vars

\* C2 (as claimed): a device list with pairwise distinct bus_ids stays so
\* across every step of add_device and remove_device.
C2_BusIdsStayDistinct == [][Distinct(devices) => Distinct(devices')]_vars

\* C3 (as claimed): every call of add_device or remove_device eventually
\* returns with the pause signal cleared.
C3_MutationReturns == (mpc # "idle") ~> (mpc = "idle" /\ ~paused)

\* C4 (as claimed): once the handler has matched a prefix that is none of
\* the four known commands, its loop has ended.
C4_UnknownTerminates ==
  \A c \in Conns : last[c].kind = "unknown" => cpc[c] \in EndPcs

\* C5 (as claimed): a CMD_SUBMIT on an imported device whose canonical
\* endpoint is not found, or whose handler fails, is answered by a RET_SUBMIT
\* with that seq_num and a nonzero status, and the loop continues.
C5_UrbErrorReply ==
  \A c \in Conns :
    ( /\ last[c].kind = "submit"
      /\ imp[c].some
      /\ \/ ~FindEp(imp[c].dev, CanonicalEp(last[c].dir, last[c].ep)).found
         \/ last[c].handler = "err" )
    => /\ cpc[c] = "top"
       /\ Len(out[c]) >= 48
       /\ ReadU32(out[c], 1) = 3
       /\ ReadU32(out[c], 5) = last[c].seq
       /\ ReadU32(out[c], 21) # 0

\* C6: an OP_REQ_IMPORT whose field matches no device is answered with the
\* eight bytes 01 11 00 03 00 00 00 01 and nothing else, leaves the
\* connection without an imported device and at the head of its loop.
C6_ImportMiss ==
  \A c \in Conns :
    (last[c].kind = "import" /\ FieldMatches(devices, last[c].field) = {})
    => /\ out[c] = <<1, 17, 0, 3, 0, 0, 0, 1>>
       /\ ~imp[c].some
       /\ cpc[c] = "top"

C6_Witness ==
  /\ last[1].kind = "import"
  /\ devices # <<>>
  /\ FieldMatches(devices, last[1].field) = {}
  /\ cpc[1] = "top"

\* C7: an OP_REQ_IMPORT leaves a device imported exactly when some bus_id,
\* resized to 32 bytes, equals the field; the device is the first such in
\* list order, and the reply is 01 11 00 03, status 0 and the 312-byte
\* summary of that device, 0x140 bytes in all, carrying the field as bus_id.
C7_ImportHit ==
  \A c \in Conns :
    last[c].kind = "import" =>
      LET hits == FieldMatches(devices, last[c].field)
      IN /\ imp[c].some <=> hits # {}
         /\ hits # {} =>
              /\ imp[c].idx \in hits
              /\ \A k \in hits : imp[c].idx <= k
              /\ imp[c].dev = devices[imp[c].idx]
              /\ Len(out[c]) = 320
              /\ SubSeq(out[c], 1, 8) = <<1, 17, 0, 3, 0, 0, 0, 0>>
              /\ SubSeq(out[c], 9, 320) = WriteDev(devices[imp[c].idx])
              /\ SubSeq(out[c], 265, 296) = last[c].field

C7_Witness ==
  /\ last[1].kind = "import"
  /\ devices = <<DevL2, DevL1>>
  /\ imp[1].some
  /\ imp[1].dev = DevL2
  /\ Len(out[1]) = 320

\* C8: every RET_SUBMIT is a 48-byte header with status 0; for OUT its
\* actual_length is the request's transfer_buffer_length and nothing
\* follows; for IN its actual_length is the length of the handler's data,
\* which follows the header.
C8_InOutAsymmetry ==
  \A c \in Conns :
    (last[c].kind = "submit" /\ out[c] # <<>>)
    => /\ Len(out[c]) >= 48
       /\ ReadU32(out[c], 1) = 3
       /\ ReadU32(out[c], 21) = 0
       /\ IF last[c].dir = 0
            THEN /\ ReadU32(out[c], 25) = last[c].tbl
                 /\ Len(out[c]) = 48
            ELSE /\ ReadU32(out[c], 25) = Len(last[c].resp)
                 /\ Len(out[c]) = 48 + Len(last[c].resp)
                 /\ SubSeq(out[c], 49, Len(out[c])) = last[c].resp

C8_Witness ==
  /\ last[1].kind = "submit"
  /\ last[1].dir = 0
  /\ last[1].tbl = 2
  /\ last[1].resp # <<>>
  /\ Len(out[1]) = 48

C10_UnlinkReply ==
  \A c \in Conns :
    (last[c].kind = "unlink" /\ imp[c].some)
    => /\ cpc[c] = "top"
       /\ out[c] = U32BE(4) \o U32BE(last[c].seq) \o Zeros(16) \o Zeros(24)

\* C11: when the stream ends with zero bytes of the next prefix delivered the
\* handler returns Ok; every other failure of the prefix read (the stream
\* ending after 1 to 3 bytes, an I/O error of another kind) returns an error.
C11_PrefixReadFailure ==
  \A c \in Conns :
    last[c].kind \in {"eof", "ioerr"} =>
      IF last[c].kind = "eof" /\ last[c].got = 0
        THEN cpc[c] = "ok"
        ELSE cpc[c] = "err"

\* C12: a stream that ends inside a packet, after 1 to 3 bytes of the prefix
\* or inside the body of a command, makes the handler return an error, never
\* Ok.
C12_MidPacketEofIsError ==
  \A c \in Conns :
    ( \/ last[c].kind = "eof" /\ last[c].got >= 1
      \/ last[c].kind = "midpacket" )
    => cpc[c] = "err"

\* Length of one device record of OP_REP_DEVLIST and of the whole reply.
RecordLen(d) == 312 + 4 * Len(d.interfaces)

RECURSIVE RecordsLen(_, _)
RecordsLen(devs, n) ==
  IF n = 0 THEN 0 ELSE RecordsLen(devs, n - 1) + RecordLen(devs[n])

\* The i-th record of a reply: the bytes after the 12-byte header and the
\* records of the devices before it.
RecordAt(bytes, devs, i) ==
  SubSeq(bytes, 12 + RecordsLen(devs, i - 1) + 1, 12 + RecordsLen(devs, i))

C14_AppliedAfterAllArrived ==
  mpc \in {"rebarrier", "resume"} =>
    \A c \in Conns : cpc[c] \notin {"read", "body"}

\* Positions of the devices whose bus_id differs from b, and the k-th of them.
Kept(devs, b) == {i \in 1 .. Len(devs) : devs[i].bus_id # b}

KthKept(devs, b, k) ==
  CHOOSE i \in Kept(devs, b) : Cardinality({j \in Kept(devs, b) : j <= i}) = k

C16_OpPhaseOnly ==
  \A c \in Conns :
    (~imp[c].some /\ last[c].kind \in {"submit", "unlink"}) =>
      /\ cpc[c] # "panic"
      /\ out[c] = <<>>
      /\ last[c].handler = "none"

\* C17: the change of phase is one-way.  Once a connection has an imported
\* device it never again answers OP_REQ_DEVLIST or OP_REQ_IMPORT, and its
\* imported device never changes.
C17_PhaseOneWay ==
  [][\A c \in Conns :
       imp[c].some =>
         /\ imp'[c] = imp[c]
         /\ (cpc[c] = "body" /\ command[c] \in {OP_REQ_DEVLIST, OP_REQ_IMPORT})
              => out'[c] = <<>>
    ]_vars

\* C18: whenever no add_device / remove_device is in progress the barrier's
\* party count is the number of devices plus one: right after construction
\* and after every completed mutation.
C18_BarrierSize ==
  mpc = "idle" => barrier.n = Len(devices) + 1

\* C19: the pause check runs before every command read.  A handler enters
\* the read of a prefix only from the check with the signal clear, or from
\* the wait for the signal to clear; one that finds the signal asserted goes
\* to the barrier, from the barrier to that wait, and leaves the wait only
\* when the signal is false; between the check and the end of the wait it
\* takes nothing from the socket and writes nothing to it.
C19_PauseBeforeRead ==
  [][\A c \in Conns :
       /\ (cpc[c] = "top" /\ cpc'[c] # "top")
            => cpc'[c] = (IF paused THEN "arrive" ELSE "read")
       /\ (cpc[c] # "read" /\ cpc'[c] = "read")
            => cpc[c] \in {"top", "waitclear"} /\ ~paused
       /\ (cpc[c] # "body" /\ cpc'[c] = "body") => cpc[c] = "read"
       /\ (cpc[c] = "arrive" /\ cpc'[c] # "arrive") => cpc'[c] \in {"barrier", "waitclear"}
       /\ (cpc[c] = "barrier" /\ cpc'[c] # "barrier") => cpc'[c] = "waitclear"
       /\ (cpc[c] = "waitclear" /\ cpc'[c] # "waitclear") => cpc'[c] = "read"
       /\ cpc[c] \in {"arrive", "barrier", "waitclear"}
            => /\ command'[c] = command[c]
               /\ out'[c] = out[c]
               /\ last'[c] = last[c]
               /\ owed'[c] = owed[c]
    ]_vars

\* Connection 1 found the signal asserted, has been through the barrier and
\* waits for the signal to clear while connection 2 is still at the barrier.
C19_Witness ==
  /\ paused
  /\ cpc[1] = "waitclear"
  /\ cpc[2] = "barrier"
  /\ last[1] = NoReq /\ out[1] = <<>>

\* A step of add_device / remove_device itself: the caller moves on from any
\* place but its wait at the barrier, which only an arrival ends.
MutatorActs == mpc' # mpc /\ mpc # "barrier"

C21_ImportedInList ==
  [][\A c \in Conns :
       /\ imp'[c].some =>
            \E i \in 1 .. Len(devices') : devices'[i] = imp'[c].dev
       /\ (cpc[c] = "body" /\ command[c] = CMD_SUBMIT /\ last'[c].handler # "none") =>
            \E i \in 1 .. Len(devices) : devices[i].bus_id = imp[c].dev.bus_id
    ]_vars

\* C22: the imported device of a connection is decided by its most recent
\* OP_REQ_IMPORT alone.  Whatever the connection held before, an import that
\* matches no device leaves it with none and an import that matches leaves
\* it with the first match; no other command changes it.
C22_LastImportDecides ==
  [][\A c \in Conns :
       IF cpc[c] = "body" /\ command[c] = OP_REQ_IMPORT /\ cpc'[c] = "top"
         THEN LET hits == FieldMatches(devices, last'[c].field)
              IN IF hits = {}
                   THEN imp'[c] = NoDevice
                   ELSE /\ imp'[c].some
                        /\ imp'[c].idx = CHOOSE i \in hits : \A k \in hits : i <= k
                        /\ imp'[c].dev = devices[imp'[c].idx]
         ELSE imp'[c] = imp[c]
    ]_vars

\* An import that misses after an earlier one hit: the connection is left
\* without a device.
C22_Witness ==
  /\ last[1].kind = "import"
  /\ last[1].had
  /\ FieldMatches(devices, last[1].field) = {}
  /\ ~imp[1].some
  /\ cpc[1] = "top"

====
